---- MODULE Spec2Model ----
(***************************************************************************)
(* Model of streamlit_app/app.py: one run of the dashboard script.         *)
(* The script reads the match CSV, takes the two sidebar selections,       *)
(* filters the table, stops on an empty result, computes the KPIs and      *)
(* renders the ten widgets.  A run is re-started from scratch on every     *)
(* interaction, so one run from `load` to a terminal position is the whole *)
(* behaviour of the program.                                               *)
(*                                                                         *)
(* A dataframe is a sequence of rows; a filtered dataframe is the sequence *)
(* of the index labels (positions in df) of the rows it keeps, because     *)
(* pandas boolean masks keep the original index.                           *)
(***************************************************************************)
EXTENDS Integers, Sequences, FiniteSets

\* ---------------------------------------------------------------- bounds
MaxRows == 2
MaxGoals == 1

\* ------------------------------------------------------ program constants
TopMatchesN == 10
TopTeamsN == 5

\* ------------------------------------------------------------ input sets
Competitions == {"PD", "PL"}
StageNames == {"FINAL", "GROUP"}
Teams == {"Arsenal", "Chelsea"}
Goals == 0..MaxGoals

\* All names of the model in lexicographic (Python str) order.
Lexicon == <<"Arsenal", "Chelsea", "FINAL", "GROUP", "PD", "PL">>

Rank(s) == CHOOSE i \in 1..Len(Lexicon) : Lexicon[i] = s

RequiredColumns ==
    {"competition_name", "stage", "date_utc", "home_team", "away_team",
     "fulltime_home", "fulltime_away", "total_goals", "goal_difference",
     "match_outcome", "status"}

OptionalColumns == {"matchday", "referee", "home_points", "away_points"}

AllColumns == RequiredColumns \cup OptionalColumns

\* One CSV row.  The derived columns are stored in the file; the data set
\* keeps them consistent with the two scores.
MkRow(c, s, h, a, fh, fa) ==
    [competition_name |-> c, stage |-> s, home_team |-> h, away_team |-> a,
     fulltime_home |-> fh, fulltime_away |-> fa,
     total_goals |-> fh + fa, goal_difference |-> fh - fa,
     match_outcome |-> IF fh > fa THEN "H" ELSE IF fh < fa THEN "A" ELSE "D"]

MatchRows ==
    {MkRow(c, s, h, a, fh, fa) :
        c \in Competitions, s \in StageNames,
        h \in Teams, a \in Teams, fh \in Goals, fa \in Goals}

Rows == {r \in MatchRows : r.home_team # r.away_team}

Tables == UNION {[1..n -> Rows] : n \in 0..MaxRows}

\* What is on disk at DATA_PATH.
MissingFile == [status |-> "missing", columns |-> {}, rows |-> <<>>]
UnreadableFile == [status |-> "unreadable", columns |-> {}, rows |-> <<>>]
CsvFile(cols, t) == [status |-> "ok", columns |-> cols, rows |-> t]

NoKPI == [computed |-> FALSE]
NoneSelected == "None"

VARIABLES csv, pc, message, df, league, stage, filtered, kpi, tables, rendered

vars == <<csv, pc, message, df, league, stage, filtered, kpi, tables, rendered>>

NoTables == [top_matches |-> <<>>, top5_teams |-> <<>>, cumulative_goals |-> <<>>]

\* ------------------------------------------------------------- helpers
RECURSIVE SumSeq(_)
SumSeq(s) == IF s = <<>> THEN 0 ELSE Head(s) + SumSeq(Tail(s))

Range(s) == {s[i] : i \in DOMAIN s}

\* sorted(...) of a set of names, and the key order of groupby(sort=True).
RECURSIVE SortedNames(_)
SortedNames(S) ==
    IF S = {} THEN <<>>
    ELSE LET m == CHOOSE x \in S : \A y \in S : Rank(x) <= Rank(y)
         IN <<m>> \o SortedNames(S \ {m})

\* Series.unique(): the distinct values of a column (order of appearance
\* is irrelevant to a selectbox choice, so a set).
ColumnValues(t, col) == {t[i][col] : i \in DOMAIN t}

HeadN(s, n) == SubSeq(s, 1, IF n < Len(s) THEN n ELSE Len(s))

\* Injective sequences over S: every arrangement of the elements of S.
Arrangements(S) ==
    {s \in [1..Cardinality(S) -> S] :
        \A i, j \in 1..Cardinality(S) : i # j => s[i] # s[j]}

\* sort_values(ascending=False) with the default kind="quicksort": the
\* result is in non-increasing order of the key; the relative order of equal
\* keys is not defined by the library, so every such order is an outcome.
DescOrders(S, val) ==
    {s \in Arrangements(S) :
        \A i \in 1..(Cardinality(S) - 1) : val[s[i]] >= val[s[i + 1]]}

\* -------------------------------------------------------- sidebar filters
\* selectbox over df["competition_name"].unique(); no option gives None.
LeagueOptions(t) ==
    IF t = <<>> THEN {NoneSelected} ELSE ColumnValues(t, "competition_name")

\* A stage list written into the program instead of read from the table.
StageOptionsFixed(t) == <<"All">> \o SortedNames(StageNames)

\* stages = ["All"] + sorted(df["stage"].unique())
StageOptions(t) == <<"All">> \o SortedNames(ColumnValues(t, "stage"))

\* df[mask]: the labels of idxs whose row passes, in the order of idxs.
RECURSIVE Mask(_, _, _, _)
Mask(t, idxs, col, v) ==
    IF idxs = <<>> THEN <<>>
    ELSE (IF t[Head(idxs)][col] = v THEN <<Head(idxs)>> ELSE <<>>)
         \o Mask(t, Tail(idxs), col, v)

AllLabels(t) == [i \in 1..Len(t) |-> i]

\* The stage mask applied whatever the selection, "All" included.
FilterRowsAlwaysStage(t, l, s) ==
    Mask(t, Mask(t, AllLabels(t), "competition_name", l), "stage", s)

FilterRows(t, l, s) ==
    LET byLeague == Mask(t, AllLabels(t), "competition_name", l)
    IN IF s # "All" THEN Mask(t, byLeague, "stage", s) ELSE byLeague

\* An emptiness test that never fires.
IsEmptyResultNever(f) == Len(f) < 0

\* total_matches == 0
IsEmptyResult(f) == Len(f) = 0

\* ---------------------------------------------------------------- KPIs
\* Series.value_counts(): a count for every value that occurs, no entry
\* for a value that does not.
ValueCounts(t, idxs, col) ==
    [v \in {t[idxs[k]][col] : k \in DOMAIN idxs} |->
        Cardinality({k \in DOMAIN idxs : t[idxs[k]][col] = v})]

\* Series.get(key, default)
Get(vc, k, default) == IF k \in DOMAIN vc THEN vc[k] ELSE default

\* The ratio without the factor 100.
PctAsRatio(count, total) == [num |-> count, den |-> total]

\* (count / total_matches) * 100 as an exact fraction.
Pct(count, total) == [num |-> count * 100, den |-> total]

\* filtered["total_goals"].mean() as an exact fraction.
MeanGoals(t, idxs) ==
    [num |-> SumSeq([k \in DOMAIN idxs |-> t[idxs[k]].total_goals]),
     den |-> Len(idxs)]

\* Only the home projection: away goals are not counted.
HomeGoalRows(t, idxs) ==
    [k \in DOMAIN idxs |->
        [team |-> t[idxs[k]].home_team, goals |-> t[idxs[k]].fulltime_home]]

\* pd.concat of the (home_team, fulltime_home) and (away_team,
\* fulltime_away) projections, both renamed to (team, goals).
TeamGoalRows(t, idxs) ==
    [k \in DOMAIN idxs |->
        [team |-> t[idxs[k]].home_team, goals |-> t[idxs[k]].fulltime_home]]
    \o
    [k \in DOMAIN idxs |->
        [team |-> t[idxs[k]].away_team, goals |-> t[idxs[k]].fulltime_away]]

\* .groupby("team")["goals"].sum(): one entry per team, keys ascending.
GroupSum(rows) ==
    LET keys == SortedNames({rows[i].team : i \in DOMAIN rows})
        OfTeam(tm) == LET Is(r) == r.team = tm IN SelectSeq(rows, Is)
        Total(tm) == SumSeq([i \in DOMAIN OfTeam(tm) |-> OfTeam(tm)[i].goals])
    IN [k \in DOMAIN keys |-> [team |-> keys[k], goals |-> Total(keys[k])]]

\* Series.sort_values(ascending=False)
SortValuesDesc(series) ==
    DescOrders(Range(series), [e \in Range(series) |-> e.goals])

\* team_goals.index[0]
TopTeam(tg) == IF tg = <<>> THEN NoneSelected ELSE tg[1].team

KPIReport(t, idxs, tg) ==
    LET oc == ValueCounts(t, idxs, "match_outcome")
        total == Len(idxs)
    IN [computed |-> TRUE,
        total_matches |-> total,
        home_wins_pct |-> Pct(Get(oc, "H", 0), total),
        away_wins_pct |-> Pct(Get(oc, "A", 0), total),
        draws_pct |-> Pct(Get(oc, "D", 0), total),
        avg_goals |-> MeanGoals(t, idxs),
        team_goals |-> tg,
        top_team |-> TopTeam(tg)]

\* ------------------------------------------------------- derived tables
\* filtered.sort_values("total_goals", ascending=False)
SortRowsDesc(t, idxs) ==
    DescOrders(Range(idxs), [i \in Range(idxs) |-> t[i].total_goals])

\* .groupby("team")["goals"].cumsum(): for every position of the
\* concatenated frame, the sum of the goals of its team up to there.
GroupCumsum(rows) ==
    [i \in DOMAIN rows |->
        SumSeq(LET Is(r) == r.team = rows[i].team
                   own == SelectSeq(SubSeq(rows, 1, i), Is)
               IN [j \in DOMAIN own |-> own[j].goals])]

\* pd.concat([filtered["home_team"], filtered["away_team"]])
\*   .reset_index(drop=True)
TeamLabels(t, idxs) ==
    [k \in DOMAIN idxs |-> t[idxs[k]].home_team]
    \o [k \in DOMAIN idxs |-> t[idxs[k]].away_team]

CumulativeGoals(t, idxs) ==
    LET cum == GroupCumsum(TeamGoalRows(t, idxs))
        lab == TeamLabels(t, idxs)
    IN [i \in DOMAIN cum |-> [team |-> lab[i], goals |-> cum[i]]]

\* The widgets of the page in script order, with the optional columns
\* each one reads.
WidgetsBeforePoints(cols) ==
    <<"fig1", "fig2", "fig3", "top_matches", "fig5", "fig6">>
    \o (IF "matchday" \in cols THEN <<"fig7">> ELSE <<>>)

WidgetsFromPoints == <<"fig8", "fig9", "fig10">>

\* px.bar(filtered, y=["home_points", "away_points"]) raises when a named
\* column is not in the frame.
PointsChartRaises(cols) == ~({"home_points", "away_points"} \subseteq cols)

\* ---------------------------------------------------------------- state
StandardFiles == {MissingFile, UnreadableFile} \cup
                 {CsvFile(AllColumns, t) : t \in Tables}

Schemas == {RequiredColumns \cup o : o \in SUBSET OptionalColumns}

AnySchemaFiles == {MissingFile, UnreadableFile} \cup
                  {CsvFile(c, t) : c \in Schemas, t \in Tables}

Start ==
    /\ pc = "load"
    /\ message = ""
    /\ df = <<>>
    /\ league = NoneSelected
    /\ stage = NoneSelected
    /\ filtered = <<>>
    /\ kpi = NoKPI
    /\ tables = NoTables
    /\ rendered = <<>>

Init == csv \in StandardFiles /\ Start

InitSchema == csv \in AnySchemaFiles /\ Start

\* ---------------------------------------------------------------- steps
\* try: df = pd.read_csv(DATA_PATH)  except FileNotFoundError: error, stop
LoadData ==
    /\ pc = "load"
    /\ IF csv.status = "ok"
       THEN df' = csv.rows /\ pc' = "sidebar" /\ message' = message
       ELSE IF csv.status = "missing"
       THEN df' = df /\ pc' = "unavailable" /\ message' = "Dataset not found"
       ELSE df' = df /\ pc' = "crashed" /\ message' = "uncaught exception"
    /\ UNCHANGED <<csv, league, stage, filtered, kpi, tables, rendered>>

Sidebar ==
    /\ pc = "sidebar"
    /\ \E l \in LeagueOptions(df), s \in Range(StageOptions(df)) :
        /\ league' = l
        /\ stage' = s
    /\ pc' = "filter"
    /\ UNCHANGED <<csv, message, df, filtered, kpi, tables, rendered>>

\* filtered = ...; if total_matches == 0: warning, stop
ApplyFilter ==
    /\ pc = "filter"
    /\ filtered' = FilterRows(df, league, stage)
    /\ IF IsEmptyResult(filtered')
       THEN pc' = "empty" /\ message' = "No matches found"
       ELSE pc' = "kpi" /\ message' = message
    /\ UNCHANGED <<csv, df, league, stage, kpi, tables, rendered>>

ComputeKPIs ==
    /\ pc = "kpi"
    /\ \E tg \in SortValuesDesc(GroupSum(TeamGoalRows(df, filtered))) :
        kpi' = KPIReport(df, filtered, tg)
    /\ pc' = "charts"
    /\ UNCHANGED <<csv, message, df, league, stage, filtered, tables, rendered>>

RenderCharts ==
    /\ pc = "charts"
    /\ \E sorted \in SortRowsDesc(df, filtered) :
        LET tm == HeadN(sorted, TopMatchesN)
            t5 == HeadN(kpi.team_goals, TopTeamsN)
        IN IF PointsChartRaises(csv.columns)
           THEN /\ tables' = [top_matches |-> tm, top5_teams |-> t5,
                              cumulative_goals |-> <<>>]
                /\ rendered' = WidgetsBeforePoints(csv.columns)
                /\ pc' = "crashed"
                /\ message' = "uncaught exception"
           ELSE /\ tables' = [top_matches |-> tm, top5_teams |-> t5,
                              cumulative_goals |-> CumulativeGoals(df, filtered)]
                /\ rendered' = WidgetsBeforePoints(csv.columns) \o WidgetsFromPoints
                /\ pc' = "done"
                /\ message' = message
    /\ UNCHANGED <<csv, df, league, stage, filtered, kpi>>

Next == LoadData \/ Sidebar \/ ApplyFilter \/ ComputeKPIs \/ RenderCharts

Spec == Init /\ [][Next]_vars

SpecSchema == InitSchema /\ [][Next]_vars

\* ------------------------------------------------------------ properties
\* Positions of the run.
Selected == csv.status = "ok" /\ pc \notin {"load", "sidebar"}

FilterDone == csv.status = "ok" /\ pc \notin {"load", "sidebar", "filter"}

\* The labels of the rows of df that satisfy the selection, read off the
\* table directly.
MatchingLabels ==
    {i \in DOMAIN df :
        /\ df[i].competition_name = league
        /\ (stage = "All" \/ df[i].stage = stage)}

RECURSIVE SumOver(_, _)
SumOver(S, f) ==
    IF S = {} THEN 0
    ELSE LET x == CHOOSE y \in S : TRUE IN f[x] + SumOver(S \ {x}, f)

AppearingTeams ==
    {df[i].home_team : i \in Range(filtered)}
    \cup {df[i].away_team : i \in Range(filtered)}

\* Goals of team tm over the filtered rows: fulltime_home where it is the
\* home team plus fulltime_away where it is the away team.
GoalsOfTeam(tm) ==
    SumOver(Range(filtered),
            [i \in Range(filtered) |->
                (IF df[i].home_team = tm THEN df[i].fulltime_home ELSE 0)
                + (IF df[i].away_team = tm THEN df[i].fulltime_away ELSE 0)])

OutcomeCount(o) ==
    Cardinality({i \in Range(filtered) : df[i].match_outcome = o})

\* C1: when no row matches the selection the run ends in the empty-result
\* state with the warning, and no KPI, no derived table and no widget exists;
\* a KPI report exists only for a non-empty filtered set.
EmptyResultStops ==
    /\ (FilterDone /\ MatchingLabels = {}) =>
          /\ pc = "empty"
          /\ message = "No matches found"
          /\ kpi = NoKPI
          /\ tables = NoTables
          /\ rendered = <<>>
    /\ kpi # NoKPI => (MatchingLabels # {} /\ kpi.total_matches > 0)
    /\ (tables # NoTables \/ rendered # <<>>) => MatchingLabels # {}

EmptyResultReached ==
    /\ pc = "empty"
    /\ df # <<>>
    /\ stage # "All"
    /\ \E i \in DOMAIN df : df[i].competition_name = league

\* C2: the team goal tally has one entry for exactly the teams that appear
\* in the filtered set, and each entry is the team's home goals plus its
\* away goals over the filtered rows.
TallyMatchesRows ==
    kpi # NoKPI =>
        LET tg == kpi.team_goals
        IN /\ {tg[k].team : k \in DOMAIN tg} = AppearingTeams
           /\ Len(tg) = Cardinality(AppearingTeams)
           /\ \A k \in DOMAIN tg : tg[k].goals = GoalsOfTeam(tg[k].team)

TallyBothRoles ==
    /\ kpi # NoKPI
    /\ \E i, j \in Range(filtered) :
        /\ i # j
        /\ df[i].home_team = df[j].away_team
        /\ df[i].fulltime_home > 0
        /\ df[j].fulltime_away > 0

\* C4: each outcome percentage is count / total_matches x 100 with count 0
\* for an outcome that does not occur, and the three sum to 100.
OutcomePercentages ==
    kpi # NoKPI =>
        /\ kpi.total_matches = Len(filtered)
        /\ kpi.total_matches > 0
        /\ kpi.home_wins_pct = [num |-> 100 * OutcomeCount("H"), den |-> Len(filtered)]
        /\ kpi.away_wins_pct = [num |-> 100 * OutcomeCount("A"), den |-> Len(filtered)]
        /\ kpi.draws_pct = [num |-> 100 * OutcomeCount("D"), den |-> Len(filtered)]
        /\ kpi.home_wins_pct.num + kpi.away_wins_pct.num + kpi.draws_pct.num
             = 100 * kpi.total_matches

OutcomeAbsent ==
    /\ kpi # NoKPI
    /\ OutcomeCount("D") = 0
    /\ OutcomeCount("H") > 0
    /\ OutcomeCount("A") > 0
    /\ kpi.draws_pct.num = 0

\* C5: the filtered set is exactly the rows of the selected competition
\* (and of the selected stage unless it is "All"), in table order.
FilterExact ==
    FilterDone =>
        /\ Range(filtered) = MatchingLabels
        /\ \A a, b \in DOMAIN filtered : a < b => filtered[a] < filtered[b]

FilterDropsAndKeeps ==
    /\ FilterDone
    /\ stage # "All"
    /\ filtered # <<>>
    /\ \E i \in DOMAIN df :
        df[i].competition_name = league /\ df[i].stage # stage

FilterKeepsOrder ==
    /\ FilterDone
    /\ Len(filtered) >= 2

\* C10 as stated: the selected stage is "All" or occurs in a row of the
\* selected competition.
StageOfSelectedCompetition ==
    Selected =>
        \/ stage = "All"
        \/ \E i \in DOMAIN df :
            df[i].competition_name = league /\ df[i].stage = stage

\* C10 amended: the selected stage is "All" or occurs in some row of the
\* table, of whatever competition.
StageFromTable ==
    Selected =>
        \/ stage = "All"
        \/ \E i \in DOMAIN df : df[i].stage = stage

StageOfOtherCompetition ==
    /\ Selected
    /\ stage # "All"
    /\ \A i \in DOMAIN df : df[i].competition_name = league => df[i].stage # stage

\* C6 as stated: whenever the source yields no table the run ends in the
\* explicit dataset-unavailable state and nothing else has run.
DatasetUnavailableExplicit ==
    (csv.status # "ok" /\ pc # "load") =>
        /\ pc = "unavailable"
        /\ message = "Dataset not found"
        /\ league = NoneSelected
        /\ kpi = NoKPI
        /\ rendered = <<>>

\* C7 as stated: a table lacking one optional column runs to the end, and
\* exactly the widgets whose optional columns are present are rendered.
WidgetNeeds ==
    [w \in {"fig1", "fig2", "fig3", "top_matches", "fig5", "fig6", "fig7",
            "fig8", "fig9", "fig10"} |->
        IF w = "fig7" THEN {"matchday"}
        ELSE IF w = "fig8" THEN {"home_points", "away_points"}
        ELSE {}]

OptionalColumnsTolerated ==
    (/\ csv.status = "ok"
     /\ Cardinality(OptionalColumns \ csv.columns) = 1
     /\ pc \in {"done", "crashed"}) =>
        /\ pc = "done"
        /\ \A w \in DOMAIN WidgetNeeds :
            (w \in Range(rendered)) <=> (WidgetNeeds[w] \subseteq csv.columns)

\* C3 as stated: the series plotted for a team is the running sum of its
\* goals over its matches in filtered-set order, home and away interleaved.
RECURSIVE OwnGoals(_, _)
OwnGoals(tm, idxs) ==
    IF idxs = <<>> THEN <<>>
    ELSE (IF df[Head(idxs)].home_team = tm THEN <<df[Head(idxs)].fulltime_home>>
          ELSE IF df[Head(idxs)].away_team = tm THEN <<df[Head(idxs)].fulltime_away>>
          ELSE <<>>)
         \o OwnGoals(tm, Tail(idxs))

RunningSum(s) == [i \in DOMAIN s |-> SumSeq(SubSeq(s, 1, i))]

PlottedSeries(tm) ==
    LET Is(p) == p.team = tm
        pts == SelectSeq(tables.cumulative_goals, Is)
    IN [i \in DOMAIN pts |-> pts[i].goals]

CumulativeInMatchOrder ==
    pc = "done" =>
        \A tm \in AppearingTeams :
            PlottedSeries(tm) = RunningSum(OwnGoals(tm, filtered))

\* C8 as stated: the tally is descending by goals with team name ascending
\* on ties, so the top team is the smallest name among the maxima.
TieBreakByName ==
    kpi # NoKPI =>
        LET tg == kpi.team_goals
        IN /\ \A k \in 1..(Len(tg) - 1) :
                \/ tg[k].goals > tg[k + 1].goals
                \/ /\ tg[k].goals = tg[k + 1].goals
                   /\ Rank(tg[k].team) < Rank(tg[k + 1].team)
           /\ \A tm \in AppearingTeams :
                \/ GoalsOfTeam(tm) < GoalsOfTeam(kpi.top_team)
                \/ Rank(kpi.top_team) <= Rank(tm)

\* C9 as stated: the top matches are the min(10, n) highest-scoring rows,
\* descending, rows of equal total_goals in filtered-set order.
TopMatchesStable ==
    pc = "done" =>
        LET tm == tables.top_matches
        IN /\ Len(tm) = (IF Len(filtered) < TopMatchesN THEN Len(filtered)
                         ELSE TopMatchesN)
           /\ Range(tm) \subseteq Range(filtered)
           /\ \A k \in 1..(Len(tm) - 1) :
                \/ df[tm[k]].total_goals > df[tm[k + 1]].total_goals
                \/ /\ df[tm[k]].total_goals = df[tm[k + 1]].total_goals
                   /\ tm[k] < tm[k + 1]

====
